---- MODULE Spec2Model ----
(***************************************************************************)
(* Model of geocode_clubs.py: the one-shot pipeline that reads club rows,  *)
(* normalizes them, geocodes each address through a persisted cache with a *)
(* rate-limit delay, writes clubs.json, geocode_report.csv and             *)
(* geocode_cache.json, and exits.                                          *)
(*                                                                         *)
(* Text is a sequence of one-character strings.  A Python value that may   *)
(* be None is a record [t, v]; floats are counted in tenths.               *)
(***************************************************************************)
EXTENDS Integers, Sequences, FiniteSets, TLC

VARIABLES xlsx_exists, columns_ok, rows, cache_file, out_json, out_report,
          pc, i, cache, clubs_out, report_rows, exit_code, trace,
          run, prev_clubs, prev_cache_file, prev_calls, start_file,
          s_in, s_out, s_again

vars == <<xlsx_exists, columns_ok, rows, cache_file, out_json, out_report,
          pc, i, cache, clubs_out, report_rows, exit_code, trace,
          run, prev_clubs, prev_cache_file, prev_calls, start_file,
          s_in, s_out, s_again>>

pipeVars == <<xlsx_exists, columns_ok, rows, cache_file, out_json, out_report,
              pc, i, cache, clubs_out, report_rows, exit_code, trace,
              run, prev_clubs, prev_cache_file, prev_calls, start_file>>

slugVars == <<s_in, s_out, s_again>>

(***************************************************************************)
(* Bounds.                                                                 *)
(***************************************************************************)
MaxRows == 2
MaxRuns == 3
MaxLen == 3

(***************************************************************************)
(* Program constant: the delay after a live call, in tenths of a second.   *)
(***************************************************************************)
REQUEST_DELAY_SECONDS == 11

(***************************************************************************)
(* Python values.                                                          *)
(***************************************************************************)
PyNone == [t |-> "none", v |-> 0]
PyFloat(x) == [t |-> "float", v |-> x]
PyEmptyStr == [t |-> "str", v |-> 0]

(***************************************************************************)
(* Text helpers: str.strip, str.lower, re.sub over character sequences.    *)
(***************************************************************************)
Alphabet == {"a", "b", "c", "l", "m", "n", "u", "1", "2",
             "A", "B", "M", "N", " ", "\t", "-", "!", ","}

Space == {" ", "\t"}

SlugChars == {"a", "b", "c", "l", "m", "n", "u", "1", "2"}

LowerChar(c) ==
  CASE c = "A" -> "a"
    [] c = "B" -> "b"
    [] c = "M" -> "m"
    [] c = "N" -> "n"
    [] OTHER -> c

RECURSIVE Lower(_)
Lower(s) ==
  IF s = <<>> THEN <<>> ELSE <<LowerChar(Head(s))>> \o Lower(Tail(s))

RECURSIVE LStrip(_, _)
LStrip(s, drop) ==
  IF s # <<>> /\ Head(s) \in drop THEN LStrip(Tail(s), drop) ELSE s

RECURSIVE RStrip(_, _)
RStrip(s, drop) ==
  IF s # <<>> /\ s[Len(s)] \in drop
  THEN RStrip(SubSeq(s, 1, Len(s) - 1), drop)
  ELSE s

Strip(s) == RStrip(LStrip(s, Space), Space)

StripHyphens(s) == RStrip(LStrip(s, {"-"}), {"-"})

\* re.sub(<class>+, rep, s): every maximal run of characters of the class
\* becomes one rep.
RECURSIVE SubRuns(_, _, _)
SubRuns(s, class, rep) ==
  IF s = <<>> THEN <<>>
  ELSE IF Head(s) \in class
       THEN <<rep>> \o SubRuns(LStrip(s, class), class, rep)
       ELSE <<Head(s)>> \o SubRuns(Tail(s), class, rep)

NotSlugChars == Alphabet \ SlugChars

TextNone == [t |-> "none", s |-> <<>>]
Text(s) == [t |-> "str", s |-> s]
NaNCell == [t |-> "nan", s |-> <<>>]

\* (text or "")
OrEmpty(text) == IF text.t = "str" THEN text.s ELSE <<>>

CLUB_FALLBACK == <<"c", "l", "u", "b">>

slugify_keep_hyphens(text) ==
  LET t1 == Lower(Strip(OrEmpty(text)))
      t2 == SubRuns(t1, NotSlugChars, "-")
  IN IF t2 # <<>> THEN t2 ELSE CLUB_FALLBACK

slugify(text) ==
  LET t1 == Lower(Strip(OrEmpty(text)))
      t2 == SubRuns(t1, NotSlugChars, "-")
      t3 == StripHyphens(t2)
  IN IF t3 # <<>> THEN t3 ELSE CLUB_FALLBACK

normalize_address(addr) ==
  SubRuns(Strip(OrEmpty(addr)), Space, " ")

\* str(cell): a missing spreadsheet cell is the float NaN, whose str is "nan".
PyStr(cell) == IF cell.t = "nan" THEN <<"n", "a", "n">> ELSE cell.s


NAN == <<"n", "a", "n">>

(***************************************************************************)
(* JSON documents and the Python values json.loads / json.dumps map them   *)
(* to.  A cache entry is {lat, lng, status}; a file may hold anything.     *)
(***************************************************************************)
JNull == [t |-> "null", v |-> 0]
JNum(x) == [t |-> "num", v |-> x]

JEntry(lat, lng, status) ==
  [t |-> "obj", lat |-> lat, lng |-> lng, status |-> status]
JEntryNull == [t |-> "null", lat |-> JNull, lng |-> JNull, status |-> ""]

PyEntry(lat, lng, status) ==
  [t |-> "dict", lat |-> lat, lng |-> lng, status |-> status]
PyEntryNone == [t |-> "none", lat |-> PyNone, lng |-> PyNone, status |-> ""]

JDocNull == [t |-> "null", items |-> {}, members |-> {}]
JDocList(items) == [t |-> "list", items |-> items, members |-> {}]
JDocObj(members) == [t |-> "obj", items |-> {}, members |-> members]

EmptyMap == [k \in {} |-> PyEntryNone]
PyCacheNone == [t |-> "none", items |-> {}, d |-> EmptyMap]
PyList(items) == [t |-> "list", items |-> items, d |-> EmptyMap]
PyDict(d) == [t |-> "dict", items |-> {}, d |-> d]

ScalarFromJson(j) == IF j.t = "num" THEN PyFloat(j.v) ELSE PyNone
ScalarToJson(p) == IF p.t = "float" THEN JNum(p.v) ELSE JNull

EntryFromJson(e) ==
  IF e.t = "obj"
  THEN PyEntry(ScalarFromJson(e.lat), ScalarFromJson(e.lng), e.status)
  ELSE PyEntryNone

EntryToJson(e) ==
  IF e.t = "dict"
  THEN JEntry(ScalarToJson(e.lat), ScalarToJson(e.lng), e.status)
  ELSE JEntryNull

\* json.loads
json_loads(doc) ==
  CASE doc.t = "obj" ->
         PyDict([k \in {m.k : m \in doc.members} |->
                   EntryFromJson((CHOOSE m \in doc.members : m.k = k).e)])
    [] doc.t = "list" -> PyList(doc.items)
    [] OTHER -> PyCacheNone

\* json.dumps(cache, indent=2)
json_dumps_drop_failures(c) ==
  CASE c.t = "dict" ->
         JDocObj({[k |-> k, e |-> EntryToJson(c.d[k])] :
                    k \in {x \in DOMAIN c.d : c.d[x].lat.t = "float"}})
    [] c.t = "list" -> JDocList(c.items)
    [] OTHER -> JDocNull

json_dumps(c) ==
  CASE c.t = "dict" ->
         JDocObj({[k |-> k, e |-> EntryToJson(c.d[k])] : k \in DOMAIN c.d})
    [] c.t = "list" -> JDocList(c.items)
    [] OTHER -> JDocNull

FileAbsent == [kind |-> "absent", doc |-> JDocNull]
FileGarbage == [kind |-> "garbage", doc |-> JDocNull]
FileJson(doc) == [kind |-> "json", doc |-> doc]

\* Lines 73-78: the cache as loaded; a missing file or a parse failure gives
\* the empty dict, any parseable document is taken as it is.
LoadCache(file) ==
  IF file.kind = "json" THEN json_loads(file.doc) ELSE PyDict(EmptyMap)

\* cache_key in cache (line 96): raises TypeError on a non-container.
InRaises(c) == c.t = "none"

In_always_miss(c, key) == FALSE

In(c, key) ==
  CASE c.t = "dict" -> key \in DOMAIN c.d
    [] c.t = "list" -> key \in c.items
    [] OTHER -> FALSE

\* cache[cache_key].get(...) (line 97): raises on a list (str index) and on
\* an entry that is not a dict.
GetRaises(c, key) == c.t # "dict" \/ c.d[key].t # "dict"

\* cache[cache_key] = {...} (line 101): raises on a list.
StoreRaises(c) == c.t # "dict"

Store(c, key, entry) ==
  PyDict([k \in DOMAIN c.d \cup {key} |-> IF k = key THEN entry ELSE c.d[k]])


(***************************************************************************)
(* The geocoder.  A response is what requests.get produces for one call:   *)
(* an exception, a non-success status, a body that is not JSON, or a JSON  *)
(* list of results with text lat / lon.                                    *)
(***************************************************************************)
Result(lat, lon) == [lat |-> lat, lon |-> lon]

Resp(raises, ok, code, is_json, data) ==
  [raises |-> raises, ok |-> ok, status_code |-> code,
   is_json |-> is_json, data |-> data]

Responses ==
  { Resp(TRUE, FALSE, 0, FALSE, <<>>),
    Resp(FALSE, FALSE, 500, FALSE, <<>>),
    Resp(FALSE, TRUE, 200, FALSE, <<>>),
    Resp(FALSE, TRUE, 200, TRUE, <<>>),
    Resp(FALSE, TRUE, 200, TRUE, <<Result("37.1", "-93.2")>>),
    Resp(FALSE, TRUE, 200, TRUE, <<Result("north", "-93.2")>>) }

\* float(text): the tenths it denotes, or a ValueError.
FloatRaises(text) == text \notin {"37.1", "-93.2"}

Float(text) ==
  CASE text = "37.1" -> PyFloat(371)
    [] text = "-93.2" -> PyFloat(0 - 932)
    [] OTHER -> PyNone

HttpStatus(code) ==
  CASE code = 500 -> "HTTP 500"
    [] OTHER -> "HTTP ???"

Outcome(raised, lat, lng, status) ==
  [raised |-> raised, lat |-> lat, lng |-> lng, status |-> status]

\* Lines 30-53.  raised: requests.get (line 37) or r.json() (line 45) threw;
\* neither is inside the try of lines 48-53.
nominatim_geocode(address, r) ==
  IF r.raises THEN Outcome(TRUE, PyNone, PyNone, "")
  ELSE IF ~r.ok THEN Outcome(FALSE, PyNone, PyNone, HttpStatus(r.status_code))
  ELSE IF ~r.is_json THEN Outcome(TRUE, PyNone, PyNone, "")
  ELSE IF r.data = <<>> THEN Outcome(FALSE, PyNone, PyNone, "No result")
  ELSE IF FloatRaises(r.data[1].lat) \/ FloatRaises(r.data[1].lon)
       THEN Outcome(FALSE, PyNone, PyNone, "Parse error")
  ELSE Outcome(FALSE, Float(r.data[1].lat), Float(r.data[1].lon), "OK")

(***************************************************************************)
(* Records the driver builds.                                              *)
(***************************************************************************)
SKIPPED == "Skipped (missing name/address)"
OK_CACHED == "OK (cached)"

ClubRecord(name, address, lat, lng) ==
  [id |-> slugify(Text(name)), name |-> name, address |-> address,
   lat |-> lat, lng |-> lng]

\* "" if lat is None else lat
ReportCell(x) == IF x.t = "none" THEN PyEmptyStr ELSE x

ReportRow(row, club, address, status, lat, lng) ==
  [row |-> row, club |-> club, address |-> address, status |-> status,
   lat |-> lat, lng |-> lng]

\* json.dumps(clubs_out, indent=2)
ClubToJson(c) ==
  [id |-> c.id, name |-> c.name, address |-> c.address,
   lat |-> ScalarToJson(c.lat), lng |-> ScalarToJson(c.lng)]

RECURSIVE ClubsToJson(_)
ClubsToJson(cs) ==
  IF cs = <<>> THEN <<>>
  ELSE <<ClubToJson(Head(cs))>> \o ClubsToJson(Tail(cs))

Ev(ev, key) == [ev |-> ev, key |-> key, d |-> 0]
EvSleep(d) == [ev |-> "sleep", key |-> <<>>, d |-> d]

\* Lines 81-82 for the row being processed.
CurRow == rows[i + 1]
CurName == Strip(PyStr(CurRow.CLUB))
CurAddress == normalize_address(Text(Strip(PyStr(CurRow.ADDRESS))))

\* Line 84.
SkipCond(name, address) ==
  name = <<>> \/ address = <<>> \/ Lower(address) = NAN


(***************************************************************************)
(* Inputs of a run.                                                        *)
(***************************************************************************)
K1 == <<"1", " ", "M">>
K2 == <<"2">>

ClubCells == {NaNCell, Text(<<" ">>), Text(<<"A", " ", "b">>)}

AddrCells == {NaNCell, Text(<<" ">>), Text(<<"1", " ", " ", "M">>),
              Text(<<" ", "1", "\t", "M">>), Text(<<"2">>)}

\* Rows with at most one defective cell.
InputRows ==
  {r \in [CLUB : ClubCells, ADDRESS : AddrCells] :
     r.CLUB = Text(<<"A", " ", "b">>) \/ r.ADDRESS = Text(<<"2">>)}

RowSeqs == UNION {[1..n -> InputRows] : n \in 0..MaxRows}

FileEntries == {JEntry(JNum(371), JNum(0 - 932), "OK"),
                JEntry(JNull, JNull, "No result"),
                JEntryNull}

ObjDocs ==
  UNION { { JDocObj({[k |-> k, e |-> f[k]] : k \in ks}) :
              f \in [ks -> FileEntries] } : ks \in SUBSET {K1, K2} }

CacheFiles ==
  {FileAbsent, FileGarbage, FileJson(JDocNull),
   FileJson(JDocList({})), FileJson(JDocList({K1}))}
  \cup {FileJson(d) : d \in ObjDocs}

(***************************************************************************)
(* The run.  pc: start -> loop -> write_json -> write_report ->            *)
(* write_cache -> summary -> exited; an uncaught exception or sys.exit     *)
(* goes to exited from where it happens.                                   *)
(***************************************************************************)
Init ==
  /\ xlsx_exists \in BOOLEAN
  /\ columns_ok \in BOOLEAN
  /\ rows \in RowSeqs
  /\ (~xlsx_exists \/ ~columns_ok) => rows = <<>>
  /\ ~xlsx_exists => ~columns_ok
  /\ cache_file \in CacheFiles
  /\ out_json = <<>>
  /\ out_report = <<>>
  /\ pc = "start"
  /\ i = 0
  /\ cache = PyDict(EmptyMap)
  /\ clubs_out = <<>>
  /\ report_rows = <<>>
  /\ exit_code = 0 - 1
  /\ trace = <<>>
  /\ run = 1
  /\ prev_clubs = <<>>
  /\ prev_cache_file = FileAbsent
  /\ prev_calls = 0
  /\ start_file = cache_file
  /\ s_in = TextNone
  /\ s_out = <<>>
  /\ s_again = <<>>

\* sys.exit(code), or the interpreter ending on an uncaught exception
\* (code 1), after the events evs.
Exit(code, evs) ==
  /\ pc' = "exited"
  /\ exit_code' = code
  /\ trace' = trace \o evs \o <<Ev("exit", <<>>)>>

inputVars == <<xlsx_exists, columns_ok, rows>>
historyVars == <<run, prev_clubs, prev_cache_file, prev_calls>>

\* Lines 56-78.
Start ==
  /\ pc = "start"
  /\ start_file' = cache_file
  /\ IF ~xlsx_exists \/ ~columns_ok
     THEN /\ Exit(1, <<>>)
          /\ UNCHANGED <<cache, clubs_out, report_rows, i>>
     ELSE /\ clubs_out' = <<>>
          /\ report_rows' = <<>>
          /\ cache' = LoadCache(cache_file)
          /\ i' = 0
          /\ pc' = "loop"
          /\ UNCHANGED <<exit_code, trace>>
  /\ UNCHANGED <<inputVars, historyVars, cache_file, out_json, out_report,
                 slugVars>>

rowFrame == <<inputVars, historyVars, cache_file, out_json, out_report,
              start_file, slugVars>>

\* Lines 84-93.
SkipRow ==
  /\ pc = "loop"
  /\ i < Len(rows)
  /\ SkipCond(CurName, CurAddress)
  /\ report_rows' = Append(report_rows,
       ReportRow(i, CurName, CurAddress, SKIPPED, PyEmptyStr, PyEmptyStr))
  /\ i' = i + 1
  /\ UNCHANGED <<pc, cache, clubs_out, exit_code, trace, rowFrame>>

\* Lines 104-119.
Emit(lat, lng, status) ==
  /\ clubs_out' = Append(clubs_out, ClubRecord(CurName, CurAddress, lat, lng))
  /\ report_rows' = Append(report_rows,
       ReportRow(i, CurName, CurAddress, status,
                 ReportCell(lat), ReportCell(lng)))
  /\ i' = i + 1

\* Line 96 on a cache that is no container: TypeError.
CacheCheckFails ==
  /\ pc = "loop"
  /\ i < Len(rows)
  /\ ~SkipCond(CurName, CurAddress)
  /\ InRaises(cache)
  /\ Exit(1, <<Ev("error_cache_check", CurAddress)>>)
  /\ UNCHANGED <<i, cache, clubs_out, report_rows, rowFrame>>

CountEv(tr, ev) == Cardinality({j \in 1..Len(tr) : tr[j].ev = ev})

\* The status given to a row served from the cache (line 98).
HitStatus_entry(entry) == entry.status

HitStatus(entry) == OK_CACHED

\* Lines 96-98, then 104-119.
CacheHitRow ==
  /\ pc = "loop"
  /\ i < Len(rows)
  /\ ~SkipCond(CurName, CurAddress)
  /\ ~InRaises(cache)
  /\ In(cache, CurAddress)
  /\ IF GetRaises(cache, CurAddress)
     THEN /\ Exit(1, <<Ev("error_cache_get", CurAddress)>>)
          /\ UNCHANGED <<i, clubs_out, report_rows>>
     ELSE /\ Emit(cache.d[CurAddress].lat, cache.d[CurAddress].lng,
                  HitStatus(cache.d[CurAddress]))
          /\ UNCHANGED <<pc, exit_code, trace>>
  /\ UNCHANGED <<cache, rowFrame>>

\* Lines 99-102, then 104-119.
LiveLookupRow ==
  /\ pc = "loop"
  /\ i < Len(rows)
  /\ ~SkipCond(CurName, CurAddress)
  /\ ~InRaises(cache)
  /\ ~In(cache, CurAddress)
  /\ \E r \in Responses :
       LET g == nominatim_geocode(CurAddress, r)
           call == Ev("call", CurAddress)
           ret == Ev("return", CurAddress)
       IN IF g.raised
          THEN /\ Exit(1, <<call, Ev("error_geocode", CurAddress)>>)
               /\ UNCHANGED <<i, cache, clubs_out, report_rows>>
          ELSE IF StoreRaises(cache)
          THEN /\ Exit(1, <<call, ret, Ev("error_cache_store", CurAddress)>>)
               /\ UNCHANGED <<i, cache, clubs_out, report_rows>>
          ELSE /\ cache' = Store(cache, CurAddress,
                                 PyEntry(g.lat, g.lng, g.status))
               /\ trace' = trace \o
                    <<call, ret, EvSleep(REQUEST_DELAY_SECONDS)>>
               /\ Emit(g.lat, g.lng, g.status)
               /\ UNCHANGED <<pc, exit_code>>
  /\ UNCHANGED rowFrame

\* Line 122.
WriteJson ==
  /\ pc = "loop"
  /\ i = Len(rows)
  /\ out_json' = ClubsToJson(clubs_out)
  /\ trace' = Append(trace, Ev("write_json", <<>>))
  /\ pc' = "write_report"
  /\ UNCHANGED <<inputVars, historyVars, cache_file, out_report, start_file,
                 i, cache, clubs_out, report_rows, exit_code, slugVars>>

\* Line 123.
WriteReport ==
  /\ pc = "write_report"
  /\ out_report' = report_rows
  /\ trace' = Append(trace, Ev("write_report", <<>>))
  /\ pc' = "write_cache"
  /\ UNCHANGED <<inputVars, historyVars, cache_file, out_json, start_file,
                 i, cache, clubs_out, report_rows, exit_code, slugVars>>

\* Line 124.
WriteCache ==
  /\ pc = "write_cache"
  /\ cache_file' = FileJson(json_dumps(cache))
  /\ trace' = Append(trace, Ev("write_cache", <<>>))
  /\ pc' = "summary"
  /\ UNCHANGED <<inputVars, historyVars, out_json, out_report, start_file,
                 i, cache, clubs_out, report_rows, exit_code, slugVars>>

\* Line 127.
Missing(cs) ==
  {j \in 1..Len(cs) : cs[j].lat.t = "none" \/ cs[j].lng.t = "none"}

\* Lines 126-131.
Summary ==
  /\ pc = "summary"
  /\ Exit(IF Missing(clubs_out) # {} THEN 2 ELSE 0, <<>>)
  /\ UNCHANGED <<inputVars, historyVars, cache_file, out_json, out_report,
                 start_file, i, cache, clubs_out, report_rows, slugVars>>

\* The tool is run again on the unchanged input after a run that completed.
Rerun ==
  /\ pc = "exited"
  /\ exit_code \in {0, 2}
  /\ run < MaxRuns
  /\ run' = run + 1
  /\ prev_clubs' = clubs_out
  /\ prev_cache_file' = cache_file
  /\ prev_calls' = prev_calls + CountEv(trace, "call")
  /\ pc' = "start"
  /\ i' = 0
  /\ cache' = PyDict(EmptyMap)
  /\ clubs_out' = <<>>
  /\ report_rows' = <<>>
  /\ exit_code' = 0 - 1
  /\ trace' = <<>>
  /\ UNCHANGED <<inputVars, cache_file, out_json, out_report, start_file,
                 slugVars>>

Next ==
  \/ Start
  \/ SkipRow
  \/ CacheCheckFails
  \/ CacheHitRow
  \/ LiveLookupRow
  \/ WriteJson
  \/ WriteReport
  \/ WriteCache
  \/ Summary
  \/ Rerun

Spec == Init /\ [][Next]_vars

(***************************************************************************)
(* slugify on its own: every text up to MaxLen over SlugInputChars, and    *)
(* None; applied once, applied to its own result, and used for the id of a *)
(* club record (line 105).                                                 *)
(***************************************************************************)
SlugInputChars == {"a", "B", "1", " ", "-", "!"}

SlugTexts == UNION {[1..n -> SlugInputChars] : n \in 0..MaxLen}

SlugInputs == {TextNone} \cup {Text(s) : s \in SlugTexts}

SlugInit ==
  /\ xlsx_exists = TRUE
  /\ columns_ok = TRUE
  /\ rows = <<>>
  /\ cache_file = FileAbsent
  /\ out_json = <<>>
  /\ out_report = <<>>
  /\ pc = "slug_in"
  /\ i = 0
  /\ cache = PyDict(EmptyMap)
  /\ clubs_out = <<>>
  /\ report_rows = <<>>
  /\ exit_code = 0 - 1
  /\ trace = <<>>
  /\ run = 1
  /\ prev_clubs = <<>>
  /\ prev_cache_file = FileAbsent
  /\ prev_calls = 0
  /\ start_file = FileAbsent
  /\ s_in \in SlugInputs
  /\ s_out = <<>>
  /\ s_again = <<>>

slugFrame == <<inputVars, historyVars, cache_file, out_json, out_report,
               start_file, i, cache, report_rows, exit_code, trace>>

SlugApply ==
  /\ pc = "slug_in"
  /\ s_out' = slugify(s_in)
  /\ pc' = "slug_out"
  /\ UNCHANGED <<s_in, s_again, clubs_out, slugFrame>>

SlugReapply ==
  /\ pc = "slug_out"
  /\ s_again' = slugify(Text(s_out))
  /\ pc' = "slug_again"
  /\ UNCHANGED <<s_in, s_out, clubs_out, slugFrame>>

\* Lines 81 and 104-110 for a row whose CLUB cell holds the text s_in.
SlugClubId ==
  /\ pc = "slug_in"
  /\ s_in.t = "str"
  /\ Strip(s_in.s) # <<>>
  /\ clubs_out' = Append(clubs_out,
                         ClubRecord(Strip(s_in.s), K1, PyNone, PyNone))
  /\ pc' = "slug_club"
  /\ UNCHANGED <<slugVars, slugFrame>>

SlugNext == SlugApply \/ SlugReapply \/ SlugClubId

SlugSpec == SlugInit /\ [][SlugNext]_vars


(***************************************************************************)
(* Properties.                                                             *)
(***************************************************************************)
SetupOk == xlsx_exists /\ columns_ok

Positions(ev) == {j \in 1..Len(trace) : trace[j].ev = ev}

CallsFor(k) == {j \in Positions("call") : trace[j].key = k}

\* Keys of the mapping held by the cache file the run started from.
LoadedKeys ==
  IF start_file.kind = "json" /\ start_file.doc.t = "obj"
  THEN {m.k : m \in start_file.doc.members}
  ELSE {}

Last(q) == q[Len(q)]

\* C1: no live call is ever made, in any run, for an address that is a key
\* of the cache mapping the run loaded at its start.
C1_NoCallForLoadedKey ==
  \A j \in Positions("call") : trace[j].key \notin LoadedKeys

\* A first run that started with K1 in its cache file served two rows
\* carrying K1 (written with different spacing) from the cache.
C1_Witness ==
  /\ run = 1
  /\ pc = "exited"
  /\ K1 \in LoadedKeys
  /\ Len(report_rows) = 2
  /\ \A r \in 1..2 : /\ report_rows[r].address = K1
                     /\ report_rows[r].status = OK_CACHED
  /\ rows[1].ADDRESS # rows[2].ADDRESS

\* The row about to be processed is not skipped and its address is a key
\* of the in-memory cache mapping.
HitCase ==
  /\ pc = "loop"
  /\ i < Len(rows)
  /\ ~SkipCond(CurName, CurAddress)
  /\ cache.t = "dict"
  /\ CurAddress \in DOMAIN cache.d

NoNewCallOrSleep ==
  \A j \in (Len(trace) + 1)..Len(trace') :
    trace'[j].ev \notin {"call", "return", "sleep"}

HitServed ==
  LET e == cache.d[CurAddress]
  IN /\ clubs_out' = Append(clubs_out,
          [id |-> slugify(Text(CurName)), name |-> CurName,
           address |-> CurAddress, lat |-> e.lat, lng |-> e.lng])
     /\ Len(report_rows') = Len(report_rows) + 1
     /\ Last(report_rows').row = i
     /\ Last(report_rows').status = "OK (cached)"
     /\ Last(report_rows').lat = (IF e.lat.t = "none" THEN PyEmptyStr ELSE e.lat)
     /\ Last(report_rows').lng = (IF e.lng.t = "none" THEN PyEmptyStr ELSE e.lng)

AtMostOneCallPerAddress ==
  \A k \in {K1, K2} : Cardinality(CallsFor(k)) <= 1

C3_DelayAfterEveryReturnedCall ==
  /\ \A j \in Positions("return") :
       /\ j < Len(trace)
       /\ trace[j + 1] = EvSleep(11)
  /\ \A j \in Positions("sleep") : j > 1 /\ trace[j - 1].ev = "return"
  /\ Cardinality(Positions("sleep")) = Cardinality(Positions("return"))

\* C4: every live lookup delivers an outcome that is stored in the cache
\* under the address, gives a club record and a report row with the stored
\* coordinates and status, is asked once, and does not abort the run.
C4_LookupFailureRecovered ==
  \A j \in Positions("call") :
    LET k == trace[j].key
    IN /\ j < Len(trace)
       /\ trace[j + 1].ev = "return"
       /\ Positions("error_geocode") = {}
       /\ cache.t = "dict"
       /\ k \in DOMAIN cache.d
       /\ \E r \in 1..Len(report_rows) :
            /\ report_rows[r].address = k
            /\ report_rows[r].status = cache.d[k].status
            /\ report_rows[r].lat = ReportCell(cache.d[k].lat)
       /\ \E c \in 1..Len(clubs_out) :
            /\ clubs_out[c].address = k
            /\ clubs_out[c].lat = cache.d[k].lat
            /\ clubs_out[c].lng = cache.d[k].lng
       /\ Cardinality(CallsFor(k)) = 1
       /\ pc = "exited" => exit_code # 1

\* C5: a run that passed the setup checks exits only after writing the
\* club JSON, then the report, then the cache, and the cache file is not
\* written before that.
C5_EndOfRunWrites ==
  /\ (pc = "exited" /\ SetupOk) =>
       LET n == Len(trace)
       IN /\ n >= 4
          /\ trace[n - 3].ev = "write_json"
          /\ trace[n - 2].ev = "write_report"
          /\ trace[n - 1].ev = "write_cache"
          /\ trace[n].ev = "exit"
  /\ (pc # "start" /\ Positions("write_cache") = {}) =>
       cache_file = start_file

\* C6: exit code 1 exactly when the input file or a required column is
\* absent (and then nothing is written and no call made), otherwise 2
\* exactly when some club record lacks a coordinate, otherwise 0.
C6_ExitCode ==
  pc = "exited" =>
    /\ exit_code = 1 <=> ~SetupOk
    /\ exit_code = 1 =>
         /\ trace = <<Ev("exit", <<>>)>>
         /\ cache_file = start_file
    /\ exit_code = 2 <=> (SetupOk /\ Missing(clubs_out) # {})
    /\ exit_code = 0 <=> (SetupOk /\ Missing(clubs_out) = {})

CellMissingOrBlank(cell) == cell.t = "nan" \/ Strip(cell.s) = <<>>

\* The rows the claim says are skipped.
MustSkip(row) ==
  \/ CellMissingOrBlank(row.CLUB)
  \/ CellMissingOrBlank(row.ADDRESS)
  \/ normalize_address(Text(Strip(PyStr(row.ADDRESS)))) = NAN

ReportRowsOf(r) == {j \in 1..Len(report_rows) : report_rows[j].row = r}

\* C7: every processed row with a missing or blank club name, or a missing,
\* blank or "nan" address, has exactly one report row, with the skipped
\* status and empty lat/lng, and no club record; every other processed row
\* has one report row and one club record.
C7_MissingOrBlankSkipped ==
  /\ \A r \in 1..i :
       /\ Cardinality(ReportRowsOf(r - 1)) = 1
       /\ MustSkip(rows[r]) =>
            \A j \in ReportRowsOf(r - 1) :
              /\ report_rows[j].status = SKIPPED
              /\ report_rows[j].lat = PyEmptyStr
              /\ report_rows[j].lng = PyEmptyStr
  /\ Len(clubs_out) = Cardinality({r \in 1..i : ~MustSkip(rows[r])})


\* C8: a run started from the cache file a completed run persisted, on the
\* unchanged input, completes without a call or a delay and emits the club
\* records, and the club JSON, of the run before it; from the third run on
\* the persisted cache mapping is the one the run before persisted.
C8_RerunDeterminism ==
  run >= 2 =>
    /\ Positions("call") = {}
    /\ Positions("sleep") = {}
    /\ pc = "exited" =>
         /\ exit_code \in {0, 2}
         /\ clubs_out = prev_clubs
         /\ out_json = ClubsToJson(prev_clubs)
         /\ run >= 3 => LoadCache(cache_file) = LoadCache(prev_cache_file)

\* The third run has ended; the first made two live calls and one of its
\* lookups failed, so the runs end with exit code 2.
C8_Witness ==
  /\ run = 3
  /\ pc = "exited"
  /\ prev_calls = 2
  /\ exit_code = 2
  /\ Len(clubs_out) = 2
  /\ clubs_out[1].lat # clubs_out[2].lat

\* A cache file holds a usable mapping when it is a JSON object whose
\* values are all {lat, lng, status} entries.
Usable(file) ==
  /\ file.kind = "json"
  /\ file.doc.t = "obj"
  /\ \A m \in file.doc.members : m.e.t = "obj"

\* C9: whatever the cache file holds at run start, a run that passed the
\* setup checks works on a mapping of entries, the empty one when the file
\* is missing or unusable, and no use of the cache ends the run.
C9_CacheLoadNeverFails ==
  (SetupOk /\ pc # "start") =>
    /\ cache.t = "dict"
    /\ \A k \in DOMAIN cache.d : cache.d[k].t = "dict"
    /\ (~Usable(start_file) /\ pc = "loop" /\ i = 0) =>
         cache = PyDict(EmptyMap)
    /\ Positions("error_cache_check") = {}
    /\ Positions("error_cache_get") = {}
    /\ Positions("error_cache_store") = {}

IsSlug(s) ==
  /\ s # <<>>
  /\ \A j \in 1..Len(s) : s[j] \in SlugChars \cup {"-"}
  /\ s[1] # "-"
  /\ s[Len(s)] # "-"

\* No character of the input is a letter or a digit.
NothingSurvives(text) ==
  text.t = "none" \/ \A j \in 1..Len(text.s) :
                       LowerChar(text.s[j]) \notin SlugChars

\* C10: slugify(s) is non-empty, made of a-z, 0-9 and hyphens, without a
\* hyphen at either end, equal to "club" when no character of s survives,
\* and slugify leaves it unchanged; the id of an emitted club record has
\* the same format.
C10_SlugFormat ==
  /\ pc \in {"slug_out", "slug_again"} =>
       /\ IsSlug(s_out)
       /\ NothingSurvives(s_in) => s_out = <<"c", "l", "u", "b">>
  /\ pc = "slug_again" => s_again = s_out
  /\ \A c \in 1..Len(clubs_out) : IsSlug(clubs_out[c].id)

\* slugify was applied to "-a!" and then to its result.
C10_Witness ==
  /\ pc = "slug_again"
  /\ s_in = Text(<<"-", "a", "!">>)
  /\ s_out = <<"a">>

====
